---- MODULE Spec2Model ----
(***************************************************************************)
(* Model of the MCP server lifecycle manager (MCPServerManager), the        *)
(* configuration store that drives it (MCPConfigManager) and the tool      *)
(* cache of the service that listens to it (AnthropicMCPService).          *)
(*                                                                         *)
(* Node's single-threaded event loop is modelled by one atomic action per  *)
(* synchronous run: the code between two real suspension points (an I/O    *)
(* await or an event callback).  A promise that settles without I/O        *)
(* (a throw inside an async function, the return of a callee that did not  *)
(* suspend) resumes its caller in the microtask queue, before any I/O      *)
(* event, so the caller's continuation belongs to the same action.         *)
(***************************************************************************)
EXTENDS Integers, Sequences, FiniteSets, TLC

\* ---------------------------------------------------------------- bounds
ServerIds == {"a", "b"}      \* the keys of the manager's maps
CallerIds == {"a"}           \* the ids the callers of Spec pass; the other keys stay untouched
MaxCalls == 3                \* calls of the public operations in a run
MaxVer == 1                  \* changes of one server's connection parameters
MaxIdLen == 2                \* characters of a server id in the tool-name checks
MaxToolLen == 4              \* characters of a tool name in the tool-name checks
MaxTools == 2                \* tools in one tools/list response

\* ------------------------------------------------------------- constants
None == 0                    \* an absent map entry / undefined
ServerTypes == {"local", "remote"}   \* remote-streamable takes the same path as remote
ExitCodes == {"0", "1", "null"}   \* null: the process was terminated by a signal
Alphabet == {"a", "_"}       \* the characters of the names in the tool-name checks
Separator == "__"            \* between server id and tool name in a tool key

VARIABLES
  config,        \* MCPConfigManager.config.mcpServers : id -> configuration or NoConfig
  servers,       \* MCPServerManager.servers     : id -> child process (index in procs) or None
  clients,       \* MCPServerManager.clients     : id -> Client (index in conns) or None
  transports,    \* MCPServerManager.transports  : id -> Transport (index in conns) or None
  serverStatus,  \* MCPServerManager.serverStatus: id -> ServerStatus or NoStatus
  procs,         \* the ChildProcess objects spawned so far
  conns,         \* the Client/Transport pairs created so far
  tasks,         \* the asynchronous calls suspended at an await, in call order
  emitted,       \* the events emitted by the last step, in order
  settled,       \* the calls that settled (resolved or rejected) in the last step
  file,          \* the backing file of the configuration: [st, mcpServers]
  availableTools,   \* AnthropicMCPService.availableTools: the keys of the tool cache
  attached,      \* the service's serverStarted/serverStopped listeners are registered
  stopDone,      \* history: ids whose stopServer on a running server resolved, no start called since
  exportFile,    \* the file exportConfig writes: [st, mcpServers]
  fresh,         \* config.mcpServers of a second, freshly constructed MCPConfigManager
  calls          \* the number of public operations called so far

vars == <<config, servers, clients, transports, serverStatus, procs, conns,
          tasks, emitted, settled, file, availableTools, attached, stopDone,
          exportFile, fresh, calls>>

NoConfig == [id |-> "", serverType |-> "none", autoStart |-> FALSE, ver |-> 0]
NoStatus == [status |-> "absent", pid |-> None, errorMessage |-> ""]
NoFile == [st |-> "missing", mcpServers |-> [id \in ServerIds |-> NoConfig]]

\* The whole state as one record, so that the synchronous pieces of the code
\* compose as functions from state to state.
St == [config |-> config, servers |-> servers, clients |-> clients,
       transports |-> transports, serverStatus |-> serverStatus,
       procs |-> procs, conns |-> conns, tasks |-> tasks,
       emitted |-> <<>>, settled |-> <<>>, file |-> file,
       availableTools |-> availableTools, attached |-> attached, stopDone |-> stopDone,
       exportFile |-> exportFile, fresh |-> fresh]

Commit(m) ==
  /\ config' = m.config
  /\ servers' = m.servers
  /\ clients' = m.clients
  /\ transports' = m.transports
  /\ serverStatus' = m.serverStatus
  /\ procs' = m.procs
  /\ conns' = m.conns
  /\ tasks' = m.tasks
  /\ emitted' = m.emitted
  /\ settled' = m.settled
  /\ file' = m.file
  /\ availableTools' = m.availableTools
  /\ attached' = m.attached
  /\ stopDone' = m.stopDone
  /\ exportFile' = m.exportFile
  /\ fresh' = m.fresh

Settle(m, op, id, res) ==
  [m EXCEPT !.settled = Append(@, [op |-> op, sid |-> id, res |-> res])]

AddTask(m, t) == [m EXCEPT !.tasks = Append(@, t)]

RemoveAt(s, i) == [j \in 1..(Len(s) - 1) |-> IF j < i THEN s[j] ELSE s[j + 1]]

NewTask(op, via, id, pc) ==
  [op |-> op, via |-> via, sid |-> id, cid |-> id, pc |-> pc, conn |-> None,
   cl |-> None, tr |-> None, pr |-> None, run |-> FALSE]

\* ------------------------------- AnthropicMCPService, the manager's listener

\* `${serverId}__${tool.name}`
ToolKey(serverId, name) == serverId \o Separator \o name

\* toolKey.startsWith(prefix)
StartsWith(toolKey, prefix) ==
  Len(toolKey) >= Len(prefix) /\ SubSeq(toolKey, 1, Len(prefix)) = prefix

\* updateToolsForServer up to await client.listTools(): without a registered
\* client it returns at once.
UpdateToolsForServer(m, id) ==
  IF m.clients[id] = None THEN m
  ELSE AddTask(m, [NewTask("updateToolsForServer", "service", id, "listTools") EXCEPT
                     !.cl = m.clients[id]])

\* removeToolsForServer: deletes the keys that start with `${serverId}__`.
RemoveToolsForServer(m, id) ==
  LET toolsToRemove == {k \in m.availableTools : StartsWith(k, id \o Separator)}
  IN [m EXCEPT !.availableTools = @ \ toolsToRemove,
               !.emitted = Append(@, [ev |-> "toolsRemoved", sid |-> id, arg |-> "",
                                      tools |-> toolsToRemove])]

\* emit(ev, ...): the event is logged and its listeners run inside the call.
\* The service listens to serverStarted and serverStopped once it is attached.
Emit(m, ev, id, arg) ==
  LET m1 == [m EXCEPT !.emitted = Append(@, [ev |-> ev, sid |-> id, arg |-> arg])]
  IN IF m.attached /\ ev = "serverStarted" THEN UpdateToolsForServer(m1, id)
     ELSE IF m.attached /\ ev = "serverStopped" THEN RemoveToolsForServer(m1, id)
     ELSE m1

\* ------------------------------------------------------ MCPServerManager

\* { ...current, ...update }: the fields of update override, the others stay.
UpdateServerStatus(m, id, update) ==
  LET cur == m.serverStatus[id]
      current == IF cur = NoStatus
                   THEN [status |-> "stopped", pid |-> None, errorMessage |-> ""]
                   ELSE cur
      updated == [f \in DOMAIN current |->
                    IF f \in DOMAIN update THEN update[f] ELSE current[f]]
  IN Emit([m EXCEPT !.serverStatus[id] = updated], "statusChanged", id, updated.status)

IsRunning(m, id) == m.serverStatus[id].status = "running"

GetServerStatus(m, id) == m.serverStatus[id]

GetAvailableTools(m, id) ==
  IF m.clients[id] = None THEN "NotConnected"
  ELSE IF m.conns[m.clients[id]].st = "open" THEN "tools"
  ELSE "ListToolsFailed"

\* callTool: the same lookup in this.clients, then client.callTool.
CallTool(m, id) ==
  IF m.clients[id] = None THEN "NotConnected"
  ELSE IF m.conns[m.clients[id]].st = "open" THEN "result"
  ELSE "CallToolFailed"

\* What the caller chain does once startServer has settled with res.
\* via names the outermost call: startServer itself, restartServer (which
\* propagates the result), or a configuration handler (which catches it).
StartSettled(m, id, via, res) == Settle(m, via, id, res)

\* The synchronous run of startLocalServer up to await client.connect(transport).
\* A stored local configuration has passed the schema, so it has a command.
\* The child process and the transport are separate objects: the process is
\* registered at once, the client and transport only after the connect.
\* startServer passes the configuration it found under serverId; the process,
\* its handlers, the client and the transport are registered under config.id.
StartLocalServer(m, id, via) ==
  LET p == Len(m.procs) + 1
      c == Len(m.conns) + 1
      cid == m.config[id].id
      m1 == [m EXCEPT
               !.procs = Append(@, [sid |-> cid, st |-> "alive"]),
               !.servers[cid] = p,
               !.conns = Append(@, [sid |-> cid, ver |-> m.config[id].ver, st |-> "pending"])]
  IN AddTask(m1, [NewTask("startServer", via, id, "connect") EXCEPT
                    !.cid = cid, !.conn = c, !.pr = p])

\* The synchronous run of startRemoteServer up to await client.connect(transport).
\* A stored remote configuration has passed the schema, so it has a url.
StartRemoteServer(m, id, via) ==
  LET c == Len(m.conns) + 1
      cid == m.config[id].id
      m1 == [m EXCEPT
               !.conns = Append(@, [sid |-> cid, ver |-> m.config[id].ver, st |-> "pending"])]
  IN AddTask(m1, [NewTask("startServer", via, id, "connect") EXCEPT !.cid = cid, !.conn = c])

\* startServer with the status set to starting before the configuration lookup.
StartServer_StatusFirst(m, id, via) ==
  LET m0 == [m EXCEPT !.stopDone = @ \ {id}]
      m1 == UpdateServerStatus(m0, id, [status |-> "starting"]) IN
  IF m0.config[id] = NoConfig THEN StartSettled(m1, id, via, "NotFound")
  ELSE IF m0.servers[id] # None THEN StartSettled(m1, id, via, "AlreadyRunning")
  ELSE IF m0.config[id].serverType = "local"
         THEN StartLocalServer(m1, id, via)
         ELSE StartRemoteServer(m1, id, via)

\* startServer up to its first suspension.  The only guard against a second
\* start is this.servers.has(serverId).
StartServer(m, id, via) ==
  LET m0 == [m EXCEPT !.stopDone = @ \ {id}] IN
  IF m0.config[id] = NoConfig THEN StartSettled(m0, id, via, "NotFound")
  ELSE IF m0.servers[id] # None THEN StartSettled(m0, id, via, "AlreadyRunning")
  ELSE LET m1 == UpdateServerStatus(m0, id, [status |-> "starting"]) IN
       IF m0.config[id].serverType = "local"
         THEN StartLocalServer(m1, id, via)
         ELSE StartRemoteServer(m1, id, via)

\* await client.connect(transport) resolved: the registrations, the status and
\* the event are made under config.id, and startServer(serverId) resolves.
ConnectResolved(m, t) ==
  LET id == t.cid
      m1 == [m EXCEPT !.conns[t.conn].st = "open",
                      !.clients[id] = t.conn,
                      !.transports[id] = t.conn]
      m2 == IF t.pr # None
              THEN UpdateServerStatus(m1, id, [status |-> "running", pid |-> t.pr])
              ELSE UpdateServerStatus(m1, id, [status |-> "running"])
  IN StartSettled(Emit(m2, "serverStarted", id, ""), t.sid, t.via, "ok")

\* await client.connect(transport) rejected: the catch block of startServer.
ConnectRejected(m, t) ==
  LET id == t.sid
      m1 == [m EXCEPT !.conns[t.conn].st = "closed"]
      msg == IF t.pr # None THEN "connect failed"
             ELSE "Failed to connect to remote server: connect failed"
      m2 == UpdateServerStatus(m1, id, [status |-> "error", errorMessage |-> msg])
  IN StartSettled(m2, id, t.via, "ConnectFailed")

\* process.kill('SIGTERM'): marks the ChildProcess killed when the signal was sent.
Kill(m, p) ==
  IF m.procs[p].st = "alive" THEN [m EXCEPT !.procs[p].st = "killed"] ELSE m

\* The stopServer calls a pending shutdown() waits for in Promise.all.
ShutdownChildren(m) ==
  {i \in 1..Len(m.tasks) : m.tasks[i].via = "shutdown" /\ m.tasks[i].op = "stopServer"}

\* The suspended shutdown() call, if there is one.
ShutdownPending(m) == {i \in 1..Len(m.tasks) : m.tasks[i].op = "shutdown"}

\* shutdown() after Promise.all resolved: this.removeAllListeners(), and the
\* call resolves.  was: the ids whose status was running when it was called.
ShutdownFinish(m, was) ==
  [m EXCEPT !.attached = FALSE,
            !.settled = Append(@, [op |-> "shutdown", sid |-> "", res |-> "ok", was |-> was])]

\* One stopServer of a shutdown() settled.  Promise.all resolves with the last
\* of them and rejects with the first rejection; the stopServer calls that are
\* still running then go on, and nothing waits for them.
ShutdownChildSettled(m, res) ==
  IF ShutdownPending(m) = {} THEN m
  ELSE LET i == CHOOSE j \in ShutdownPending(m) : TRUE
           was == m.tasks[i].was
           m1 == [m EXCEPT !.tasks = RemoveAt(@, i)]
       IN IF res = "ok"
            THEN IF ShutdownChildren(m1) = {} THEN ShutdownFinish(m1, was) ELSE m
            ELSE [m1 EXCEPT
                    !.tasks = [j \in 1..Len(m1.tasks) |->
                                 IF m1.tasks[j].via = "shutdown"
                                   THEN [m1.tasks[j] EXCEPT !.via = "detached"]
                                   ELSE m1.tasks[j]],
                    !.settled = Append(@, [op |-> "shutdown", sid |-> "", res |-> res,
                                           was |-> was])]

\* What the caller chain does once stopServer has settled with res.
StopSettled(m, id, via, res) ==
  IF via = "shutdown" THEN ShutdownChildSettled(m, res)
  ELSE IF via = "detached" THEN m
  ELSE IF via = "handleServerRemoved" THEN
    \* handleServerRemoved: await this.stopServer(id); this.serverStatus.delete(id)
    IF res = "ok"
      THEN Settle([m EXCEPT !.serverStatus[id] = NoStatus, !.stopDone = @ \ {id}], via, id, "ok")
      ELSE Settle(m, via, id, res)
  ELSE IF via \in {"restartServer", "handleServerUpdated"} THEN
    \* restartServer: await this.stopServer(id); await <1 s timer>; await this.startServer(id)
    IF res = "ok"
      THEN AddTask(m, NewTask("restartServer", via, id, "settle"))
      ELSE Settle(m, via, id, res)
  ELSE Settle(m, via, id, res)

\* The last synchronous run of stopServer: terminate the process, status stopped.
\* The 5 s SIGKILL timer only signals a process that is still not marked killed
\* and touches no state of the manager.
StopFinish(m, t) ==
  LET id == t.sid
      m1 == IF t.pr # None THEN [Kill(m, t.pr) EXCEPT !.servers[id] = None] ELSE m
      m2 == UpdateServerStatus(m1, id, [status |-> "stopped"])
      m3 == Emit(m2, "serverStopped", id, "")
      m4 == IF t.run THEN [m3 EXCEPT !.stopDone = @ \cup {id}] ELSE m3
  IN StopSettled(m4, id, t.via, "ok")

\* await client.close() resolved.
StopAfterClient(m, t) ==
  LET m1 == [m EXCEPT !.clients[t.sid] = None, !.conns[t.cl].st = "closed"] IN
  IF t.tr # None THEN AddTask(m1, [t EXCEPT !.pc = "closeTransport"])
  ELSE StopFinish(m1, t)

\* await transport.close() resolved.
StopAfterTransport(m, t) ==
  StopFinish([m EXCEPT !.transports[t.sid] = None, !.conns[t.tr].st = "closed"], t)

StopServer(m, id, via) ==
  LET t == [NewTask("stopServer", via, id, "closeClient") EXCEPT
              !.pr = m.servers[id], !.cl = m.clients[id], !.tr = m.transports[id],
              !.run = IsRunning(m, id)]
  IN IF t.cl # None THEN AddTask(m, t)
     ELSE IF t.tr # None THEN AddTask(m, [t EXCEPT !.pc = "closeTransport"])
     ELSE StopFinish(m, t)

\* restartServer: the status is set to restarting first and isRunning is
\* evaluated on the result.
RestartServer(m, id, via) ==
  LET m0 == [m EXCEPT !.stopDone = @ \ {id}]
      m1 == UpdateServerStatus(m0, id, [status |-> "restarting"])
  IN IF IsRunning(m1, id) THEN StopServer(m1, id, via)
     ELSE StartServer(m1, id, via)

HandleServerAdded(m, id, autoStart) ==
  IF autoStart THEN StartServer(m, id, "handleServerAdded")
  ELSE Settle(m, "handleServerAdded", id, "skipped")

\* handleServerUpdated restarting the server whatever its status is.
HandleServerUpdated_Always(m, id) == RestartServer(m, id, "handleServerUpdated")

HandleServerUpdated(m, id) ==
  IF IsRunning(m, id) THEN RestartServer(m, id, "handleServerUpdated")
  ELSE Settle(m, "handleServerUpdated", id, "skipped")

HandleServerRemoved(m, id) ==
  IF IsRunning(m, id) THEN StopServer(m, id, "handleServerRemoved")
  ELSE Settle([m EXCEPT !.serverStatus[id] = NoStatus, !.stopDone = @ \ {id}],
              "handleServerRemoved", id, "ok")

\* runningServers.map(serverId => this.stopServer(serverId)): the calls are made
\* one after the other in the order of the keys of this.servers (their
\* insertion order, the order of the spawns), each up to its first suspension.
RECURSIVE StopEach(_, _)
StopEach(m, keys) ==
  IF keys = {} THEN m
  ELSE LET id == CHOOSE x \in keys : \A y \in keys : m.servers[x] <= m.servers[y]
       IN StopEach(StopServer(m, id, "shutdown"), keys \ {id})

\* shutdown(): the servers it stops are the keys of this.servers, the map of
\* the child processes.
Shutdown(m) ==
  LET runningServers == {id \in ServerIds : m.servers[id] # None}
      was == {id \in ServerIds : IsRunning(m, id)}
      m1 == StopEach(m, runningServers)
  IN IF ShutdownChildren(m1) = {} THEN ShutdownFinish(m1, was)
     ELSE AddTask(m1, [op |-> "shutdown", via |-> "shutdown", sid |-> "", pc |-> "all",
                       conn |-> None, cl |-> None, tr |-> None, pr |-> None,
                       run |-> FALSE, was |-> was])

\* The exit handler without this.clients.delete(config.id).
ExitHandler_KeepsClient(m, p, code) ==
  LET id == m.procs[p].sid
      m1 == [m EXCEPT !.procs[p].st = "exited", !.servers[id] = None]
      m2 == IF code = "0"
              THEN UpdateServerStatus(m1, id, [status |-> "stopped"])
              ELSE UpdateServerStatus(m1, id,
                     [status |-> "error",
                      errorMessage |-> IF code = "1" THEN "Process exited with code 1"
                                       ELSE "Process exited with code null"])
  IN Emit(m2, "serverStopped", id, code)

\* serverProcess.on('exit', (code, signal) => ...)
ExitHandler(m, p, code) ==
  LET id == m.procs[p].sid
      m1 == [m EXCEPT !.procs[p].st = "exited",
                      !.servers[id] = None, !.clients[id] = None]
      m2 == IF code = "0"
              THEN UpdateServerStatus(m1, id, [status |-> "stopped"])
              ELSE UpdateServerStatus(m1, id,
                     [status |-> "error",
                      errorMessage |-> IF code = "1" THEN "Process exited with code 1"
                                       ELSE "Process exited with code null"])
  IN Emit(m2, "serverStopped", id, code)

\* serverProcess.on('error', (error) => ...)
ErrorHandler(m, p) ==
  LET id == m.procs[p].sid
      m2 == UpdateServerStatus(m, id, [status |-> "error", errorMessage |-> "process error"])
  IN Emit(m2, "serverError", id, "")

\* ------------------------------------------------------ MCPConfigManager

\* fs.writeFile(this.configPath, JSON.stringify(config)) has completed: the
\* file holds the servers of the configuration that was serialised.
WriteFile(m, mcpServers) == [m EXCEPT !.file = [st |-> "ok", mcpServers |-> mcpServers]]

\* In this specification saveConfig succeeds, and the write is part of the
\* call: the entry is changed, the file written, the event emitted, and the
\* manager's listener runs inside emit up to its first suspension.
AddServer(m, id, serverConfig) ==
  IF m.config[id] # NoConfig THEN Settle(m, "addServer", id, "DuplicateId")
  ELSE LET m0 == [m EXCEPT !.config[id] = serverConfig]
           m1 == Emit(WriteFile(m0, m0.config), "configSaved", id, "")
           m2 == HandleServerAdded(Emit(m1, "serverAdded", id, ""), id, serverConfig.autoStart)
       IN Settle(m2, "addServer", id, "ok")

\* The patch stands for a change of the connection parameters (ver).
UpdateServer(m, id, updates) ==
  IF m.config[id] = NoConfig THEN Settle(m, "updateServer", id, "NotFound")
  ELSE LET existingServer == m.config[id]
           updatedServer == [f \in DOMAIN existingServer |->
                               IF f \in DOMAIN updates THEN updates[f] ELSE existingServer[f]]
           m0 == [m EXCEPT !.config[id] = updatedServer]
           m1 == Emit(WriteFile(m0, m0.config), "configSaved", id, "")
           m2 == HandleServerUpdated(Emit(m1, "serverUpdated", id, ""), id)
       IN Settle(m2, "updateServer", id, "ok")

RemoveServer(m, id) ==
  IF m.config[id] = NoConfig THEN Settle(m, "removeServer", id, "NotFound")
  ELSE LET m0 == [m EXCEPT !.config[id] = NoConfig]
           m1 == Emit(WriteFile(m0, m0.config), "configSaved", id, "")
           m2 == HandleServerRemoved(Emit(m1, "serverRemoved", id, ""), id)
       IN Settle(m2, "removeServer", id, "ok")

\* --------------------------------------------------- AnthropicMCPService

\* The loop of updateToolsForServer from the k-th tool of the response on: each
\* tool is validated and set under its key in turn; a tool that fails
\* validateMCPTool throws out of the loop into the catch block, which logs.
RECURSIVE SetTools(_, _, _, _)
SetTools(m, id, tools, k) ==
  IF k > Len(tools)
    THEN [m EXCEPT !.emitted = Append(@, [ev |-> "toolsUpdated", sid |-> id, arg |-> "",
                                          tools |-> {tools[j].name : j \in 1..Len(tools)}])]
  ELSE IF ~tools[k].valid THEN m
  ELSE SetTools([m EXCEPT !.availableTools = @ \cup {ToolKey(id, tools[k].name)}],
                id, tools, k + 1)

\* await client.listTools() resolved with the tools the server advertises.
ToolsListed(m, t, tools) == SetTools(m, t.sid, tools, 1)

\* await client.listTools() rejected: the catch block logs the error.
ToolsListFailed(m, t) == m

\* The index of the first occurrence of the separator in s, 0 if there is none.
IndexOf(s) ==
  LET hits == {i \in 1..(Len(s) - 1) : SubSeq(s, i, i + 1) = Separator}
  IN IF hits = {} THEN 0 ELSE CHOOSE i \in hits : \A j \in hits : i <= j

\* s.split('__'): the pieces between the occurrences of the separator, which
\* are found from the left and do not overlap.
RECURSIVE Split(_)
Split(s) ==
  LET i == IndexOf(s) IN
  IF i = 0 THEN <<s>>
  ELSE <<SubSeq(s, 1, i - 1)>> \o Split(SubSeq(s, i + 2, Len(s)))

\* s.split('__', 2): at most the first two pieces of the split; the limit cuts
\* the list of pieces and leaves the rest of the string out.
SplitLimit2(s) ==
  LET parts == Split(s) IN
  IF Len(parts) <= 2 THEN parts ELSE SubSeq(parts, 1, 2)

\* executeToolUse: the name is split into server id and tool name, the client of
\* the server is looked up, and the tool is called on it.
ExecuteToolUse(m, toolName) ==
  LET parts == SplitLimit2(toolName)
      serverId == parts[1]
      actualToolName == IF Len(parts) >= 2 THEN parts[2] ELSE ""
      out == IF serverId = "" \/ actualToolName = "" THEN "InvalidToolName"
             ELSE IF serverId \notin ServerIds THEN "NotRunning"
             ELSE IF m.clients[serverId] = None THEN "NotRunning"
             ELSE CallTool(m, serverId)
  IN [m EXCEPT !.settled = Append(@, [op |-> "executeToolUse", sid |-> serverId,
                                      res |-> out, key |-> toolName,
                                      tool |-> actualToolName])]

\* ------------------------------------------------ the configuration schema
\* A configuration is a record that has exactly the properties that are set.

\* { ...a, ...b }: the properties of b override, the others stay.
Merge(a, b) ==
  [f \in DOMAIN a \cup DOMAIN b |-> IF f \in DOMAIN b THEN b[f] ELSE a[f]]

\* The .default(...) values of MCPServerConfigSchema.
SchemaDefaults ==
  [autoStart |-> FALSE, timeout |-> 30000, retryAttempts |-> 3, maxRestarts |-> 5,
   enabled |-> TRUE]

\* z.string().url(): the string parses as a URL (a scheme and something after it).
IsUrl(s) == Len(s) > Len("http://") /\ StartsWith(s, "http://")

\* .refine(...): local servers require a command, the others a url.
Refinement(data) ==
  IF data.serverType = "local"
    THEN "command" \in DOMAIN data /\ data.command # ""
    ELSE "url" \in DOMAIN data /\ data.url # ""

\* MCPServerConfigSchema.parse(data) does not throw.
SchemaAccepts(data) ==
  /\ data.id # ""
  /\ data.name # ""
  /\ data.serverType \in ServerTypes
  /\ "url" \in DOMAIN data => IsUrl(data.url)
  /\ Refinement(data)

\* The value MCPServerConfigSchema.parse(data) returns: data with the defaults
\* for the properties that are not set.
MCPServerConfigSchema(data) == Merge(SchemaDefaults, data)

\* MCPConfigurationSchema.parse(content) does not throw: z.record(z.string(),
\* MCPServerConfigSchema) checks the values and puts no condition on the keys.
ConfigurationAccepts(mcpServers) ==
  \A k \in ServerIds : mcpServers[k] # NoConfig => SchemaAccepts(mcpServers[k])

\* The value MCPConfigurationSchema.parse(content) returns.
MCPConfigurationSchema(mcpServers) ==
  [k \in ServerIds |->
     IF mcpServers[k] = NoConfig THEN NoConfig ELSE MCPServerConfigSchema(mcpServers[k])]

\* ------------------------------------- MCPConfigManager with its file I/O
\* The store on its own, every await of a file operation a suspension point.
\* A write replaces the content of the file as a whole when it completes.

EmptyServers == [id \in ServerIds |-> NoConfig]

\* A store event with its payload: the configuration passed to the listeners.
EmitCfg(m, ev, id, cfg) ==
  [m EXCEPT !.emitted = Append(@, [ev |-> ev, sid |-> id, arg |-> "", cfg |-> cfg])]

\* A suspended call of the store.  snap: the servers serialised for the write,
\* cfg: the configuration the call will announce, old: the servers in memory
\* before a reload replaced them.
StoreTask(op, id, pc, snap, cfg, old) ==
  [op |-> op, via |-> "store", sid |-> id, pc |-> pc, conn |-> None, cl |-> None,
   tr |-> None, pr |-> None, run |-> FALSE, snap |-> snap, cfg |-> cfg, old |-> old]

\* The watcher's callback got a 'change' event and awaits fs.readFile in loadConfig.
WatchChange(m) ==
  AddTask(m, StoreTask("watch", "", "read", EmptyServers, NoConfig, EmptyServers))

\* saveConfig up to await fs.writeFile: the configuration in memory passes the
\* schema (its entries did when they were stored) and is serialised now.
SaveConfig(m, op, id, cfg, old) ==
  AddTask(m, StoreTask(op, id, "write", m.config, cfg, old))

\* addServer with serverAdded emitted before the configuration is saved.
StoreAddServer_EmitFirst(m, id, serverConfig) ==
  IF m.config[id] # NoConfig THEN Settle(m, "addServer", id, "DuplicateId")
  ELSE LET m1 == EmitCfg([m EXCEPT !.config[id] = serverConfig], "serverAdded", id, serverConfig)
       IN SaveConfig(m1, "addServer", id, serverConfig, m.config)

\* addServer up to await this.saveConfig().
StoreAddServer(m, id, serverConfig) ==
  IF m.config[id] # NoConfig THEN Settle(m, "addServer", id, "DuplicateId")
  ELSE SaveConfig([m EXCEPT !.config[id] = serverConfig], "addServer", id, serverConfig, m.config)

\* updateServer up to await this.saveConfig().
StoreUpdateServer(m, id, updates) ==
  IF m.config[id] = NoConfig THEN Settle(m, "updateServer", id, "NotFound")
  ELSE LET existingServer == m.config[id]
           updatedServer == Merge(existingServer, updates)
       IN SaveConfig([m EXCEPT !.config[id] = updatedServer], "updateServer", id,
                     updatedServer, m.config)

\* removeServer up to await this.saveConfig().
StoreRemoveServer(m, id) ==
  IF m.config[id] = NoConfig THEN Settle(m, "removeServer", id, "NotFound")
  ELSE SaveConfig([m EXCEPT !.config[id] = NoConfig], "removeServer", id, NoConfig, m.config)

\* await fs.writeFile resolved: configSaved, then the caller of saveConfig goes
\* on.  The watcher sees the change of the file.
WriteResolved(m, t) ==
  LET m1 == WatchChange(Emit(WriteFile(m, t.snap), "configSaved", t.sid, ""))
      m2 == IF t.op = "addServer" THEN EmitCfg(m1, "serverAdded", t.sid, t.cfg)
            ELSE IF t.op = "updateServer" THEN EmitCfg(m1, "serverUpdated", t.sid, t.cfg)
            ELSE IF t.op = "removeServer" THEN EmitCfg(m1, "serverRemoved", t.sid, t.cfg)
            ELSE IF t.op = "watch" THEN Emit(m1, "configChanged", "", "")
            ELSE IF t.op = "importConfig" THEN Emit(m1, "configImported", "", "")
            ELSE m1
  IN Settle(m2, t.op, t.sid, "ok")

\* await fs.writeFile rejected: saveConfig throws, the caller throws with it and
\* emits nothing; the watcher's callback catches and emits configError.  The
\* file is as it was, or (damaged) was truncated before the failure.
WriteRejected(m, t, damaged) ==
  LET m1 == IF damaged
              THEN WatchChange([m EXCEPT !.file = [st |-> "corrupt", mcpServers |-> EmptyServers]])
              ELSE m
      m2 == IF t.op = "watch" THEN Emit(m1, "configError", "", "") ELSE m1
  IN Settle(m2, t.op, t.sid, "SaveFailed")

\* createDefaultConfig up to the await in saveConfig: memory is replaced first.
CreateDefaultConfig(m, t) ==
  SaveConfig([m EXCEPT !.config = EmptyServers], t.op, t.sid, NoConfig, m.config)

\* await fs.readFile settled in the loadConfig of the watcher's callback.
\* content that parses and passes the schema replaces the configuration in
\* memory, as the schema returns it (with its defaults); a missing file (ENOENT) makes loadConfig create the default
\* configuration; anything else makes it throw.
ReadSettled(m, t) ==
  IF m.file.st = "ok"
    THEN Settle(Emit([m EXCEPT !.config = MCPConfigurationSchema(m.file.mcpServers)],
                     "configChanged", "", ""),
                t.op, t.sid, "ok")
  ELSE IF m.file.st = "missing" THEN CreateDefaultConfig(m, t)
  ELSE Settle(Emit(m, "configError", "", ""), t.op, t.sid, "LoadFailed")

\* await fs.readFile rejected with an error other than ENOENT.
ReadRejected(m, t) == Settle(Emit(m, "configError", "", ""), t.op, t.sid, "LoadFailed")

\* addServer: MCPServerConfigSchema.parse(serverConfig) throws on a
\* configuration the schema rejects; what it returns is not used, and the
\* configuration is stored as it was passed, under its id.
SchemaAddServer(m, serverConfig) ==
  IF ~SchemaAccepts(serverConfig) THEN Settle(m, "addServer", serverConfig.id, "Invalid")
  ELSE StoreAddServer(m, serverConfig.id, serverConfig)

\* updateServer without the validation of the merged configuration.
SchemaUpdateServer_Unchecked(m, serverId, updates) ==
  IF m.config[serverId] = NoConfig THEN Settle(m, "updateServer", serverId, "NotFound")
  ELSE StoreUpdateServer(m, serverId, updates)

\* updateServer: the merge of the stored configuration and the patch is
\* validated, and stored under serverId.
SchemaUpdateServer(m, serverId, updates) ==
  IF m.config[serverId] = NoConfig THEN Settle(m, "updateServer", serverId, "NotFound")
  ELSE IF ~SchemaAccepts(Merge(m.config[serverId], updates))
    THEN Settle(m, "updateServer", serverId, "Invalid")
  ELSE StoreUpdateServer(m, serverId, updates)

\* getServer(serverId)
GetServer(mcpServers, serverId) == mcpServers[serverId]

\* getAutoStartServers(): the values with autoStart set and enabled not false.
GetAutoStartServers(mcpServers) ==
  {mcpServers[k] : k \in {j \in ServerIds :
      /\ mcpServers[j] # NoConfig
      /\ "autoStart" \in DOMAIN mcpServers[j] /\ mcpServers[j].autoStart
      /\ "enabled" \in DOMAIN mcpServers[j] => mcpServers[j].enabled}}

\* exportConfig up to await fs.writeFile: the configuration in memory is
\* serialised now.  The configurations of the model have no property whose
\* value is undefined, so the text holds each of them property for property.
ExportConfig(m) ==
  AddTask(m, StoreTask("exportConfig", "", "export", m.config, NoConfig, m.config))

\* await fs.writeFile(exportFilePath, ...) resolved.
ExportResolved(m, t) ==
  Settle([m EXCEPT !.exportFile = [st |-> "ok", mcpServers |-> t.snap]],
         "exportConfig", "", "ok")

\* await fs.writeFile(exportFilePath, ...) rejected.
ExportRejected(m, t) == Settle(m, "exportConfig", "", "WriteFailed")

\* importConfig(importPath, merge) of store ("main", or "fresh" for the second
\* manager) up to await fs.readFile.
ImportConfig(m, store, merge) ==
  AddTask(m, Merge(StoreTask("importConfig", "", "importRead", EmptyServers, NoConfig,
                             EmptyServers),
                   [store |-> store, merge |-> merge]))

\* importConfig settled with res in the given store.
ImportSettled(m, t, res) ==
  [m EXCEPT !.settled = Append(@, [op |-> "importConfig", sid |-> "", res |-> res,
                                   store |-> t.store])]

\* { ...this.config.mcpServers, ...validatedConfig.mcpServers }
MergeServers(mcpServers, imported) ==
  [k \in ServerIds |-> IF imported[k] # NoConfig THEN imported[k] ELSE mcpServers[k]]

\* await fs.readFile(importPath) resolved: the content is parsed and validated,
\* the configuration in memory merged with it or replaced by it, and
\* saveConfig called.  The second manager saves to a file of its own.
ImportReadSettled(m, t) ==
  IF m.exportFile.st # "ok" THEN ImportSettled(m, t, "ReadFailed")
  ELSE IF ~ConfigurationAccepts(m.exportFile.mcpServers) THEN ImportSettled(m, t, "Invalid")
  ELSE LET validatedConfig == MCPConfigurationSchema(m.exportFile.mcpServers)
           next(cur) == IF t.merge THEN MergeServers(cur, validatedConfig)
                        ELSE validatedConfig
       IN IF t.store = "fresh"
            THEN AddTask([m EXCEPT !.fresh = next(@)], [t EXCEPT !.pc = "importWrite"])
            ELSE SaveConfig([m EXCEPT !.config = next(@)], "importConfig", "", NoConfig,
                            m.config)

\* await fs.readFile(importPath) rejected.
ImportReadRejected(m, t) == ImportSettled(m, t, "ReadFailed")

\* The saveConfig of the second manager's importConfig settled.
ImportWriteSettled(m, t, ok) ==
  ImportSettled(m, t, IF ok THEN "ok" ELSE "SaveFailed")

\* ---------------------------------------------------------------- actions

Init ==
  /\ config = [id \in ServerIds |-> NoConfig]
  /\ servers = [id \in ServerIds |-> None]
  /\ clients = [id \in ServerIds |-> None]
  /\ transports = [id \in ServerIds |-> None]
  /\ serverStatus = [id \in ServerIds |-> NoStatus]
  /\ procs = <<>>
  /\ conns = <<>>
  /\ tasks = <<>>
  /\ emitted = <<>>
  /\ settled = <<>>
  /\ file = [st |-> "ok", mcpServers |-> [id \in ServerIds |-> NoConfig]]
  /\ availableTools = {}
  /\ attached = FALSE
  /\ stopDone = {}
  /\ exportFile = NoFile
  /\ fresh = [id \in ServerIds |-> NoConfig]
  /\ calls = 0

\* A step of the event loop that no caller initiates.
Step(m) == Commit(m) /\ UNCHANGED calls

\* A call of a public operation (made while the budget of calls lasts).
Call(m) == Commit(m) /\ calls' = calls + 1

Resume(i) == [St EXCEPT !.tasks = RemoveAt(tasks, i)]

CallAddServer ==
  \E id \in CallerIds, ty \in ServerTypes, au \in BOOLEAN :
    /\ calls < MaxCalls
    /\ Call(AddServer(St, id, [id |-> id, serverType |-> ty, autoStart |-> au, ver |-> 0]))

CallUpdateServer ==
  \E id \in CallerIds :
    /\ calls < MaxCalls
    /\ config[id].ver < MaxVer
    /\ Call(UpdateServer(St, id, [ver |-> config[id].ver + 1]))

CallRemoveServer ==
  \E id \in CallerIds :
    /\ calls < MaxCalls
    /\ Call(RemoveServer(St, id))

CallStartServer ==
  \E id \in CallerIds :
    /\ calls < MaxCalls
    /\ Call(StartServer(St, id, "startServer"))

CallStopServer ==
  \E id \in CallerIds :
    /\ calls < MaxCalls
    /\ Call(StopServer(St, id, "stopServer"))

CallRestartServer ==
  \E id \in CallerIds :
    /\ calls < MaxCalls
    /\ Call(RestartServer(St, id, "restartServer"))

\* shutdown() is called at teardown, once at a time.
CallShutdown ==
  /\ calls < MaxCalls
  /\ ShutdownPending(St) = {}
  /\ Call(Shutdown(St))

ConnectOk ==
  \E i \in 1..Len(tasks) :
    tasks[i].pc = "connect" /\ Step(ConnectResolved(Resume(i), tasks[i]))

ConnectFail ==
  \E i \in 1..Len(tasks) :
    tasks[i].pc = "connect" /\ Step(ConnectRejected(Resume(i), tasks[i]))

\* An await of the stop chain resolves: client.close(), transport.close(), or
\* the settle delay of restartServer.
AwaitOk ==
  \E i \in 1..Len(tasks) :
    LET t == tasks[i] IN
    /\ t.pc \in {"closeClient", "closeTransport", "settle"}
    /\ Step(IF t.pc = "closeClient" THEN StopAfterClient(Resume(i), t)
            ELSE IF t.pc = "closeTransport" THEN StopAfterTransport(Resume(i), t)
            ELSE StartServer(Resume(i), t.sid, t.via))

\* client.close() or transport.close() rejects: stopServer rejects where it is.
AwaitFail ==
  \E i \in 1..Len(tasks) :
    LET t == tasks[i] IN
    /\ t.pc \in {"closeClient", "closeTransport"}
    /\ Step(StopSettled(Resume(i), t.sid, t.via, "CloseFailed"))

ProcExit ==
  \E p \in 1..Len(procs), code \in ExitCodes :
    procs[p].st # "exited" /\ Step(ExitHandler(St, p, code))

ProcError ==
  \E p \in 1..Len(procs) :
    procs[p].st # "exited" /\ Step(ErrorHandler(St, p))

Next ==
  \/ CallAddServer
  \/ CallUpdateServer
  \/ CallRemoveServer
  \/ CallStartServer
  \/ CallStopServer
  \/ CallRestartServer
  \/ CallShutdown
  \/ ConnectOk
  \/ ConnectFail
  \/ AwaitOk
  \/ AwaitFail
  \/ ProcExit
  \/ ProcError

Spec == Init /\ [][Next]_vars

\* ------------------------------------------- the manager with the service
\* The tools a server may advertise; x is malformed and fails validateMCPTool.
ToolEntries ==
  {[name |-> "t", valid |-> TRUE], [name |-> "u", valid |-> TRUE],
   [name |-> "x", valid |-> FALSE]}

\* The tools/list responses: up to MaxTools different tools in some order.
ToolLists ==
  UNION {{l \in [1..n -> ToolEntries] : \A i, j \in 1..n : l[i] = l[j] => i = j} :
         n \in 0..MaxTools}

\* After initializeWithServerManagers on a manager without running servers.
InitTools ==
  /\ config = [id \in ServerIds |-> NoConfig]
  /\ servers = [id \in ServerIds |-> None]
  /\ clients = [id \in ServerIds |-> None]
  /\ transports = [id \in ServerIds |-> None]
  /\ serverStatus = [id \in ServerIds |-> NoStatus]
  /\ procs = <<>>
  /\ conns = <<>>
  /\ tasks = <<>>
  /\ emitted = <<>>
  /\ settled = <<>>
  /\ file = [st |-> "ok", mcpServers |-> [id \in ServerIds |-> NoConfig]]
  /\ availableTools = {}
  /\ attached = TRUE
  /\ stopDone = {}
  /\ exportFile = NoFile
  /\ fresh = [id \in ServerIds |-> NoConfig]
  /\ calls = 0

\* The response to tools/list arrives on a connection that is still open.
ListToolsOk ==
  \E i \in 1..Len(tasks), tools \in ToolLists :
    /\ tasks[i].pc = "listTools"
    /\ conns[tasks[i].cl].st = "open"
    /\ Step(ToolsListed(Resume(i), tasks[i], tools))

ListToolsFail ==
  \E i \in 1..Len(tasks) :
    tasks[i].pc = "listTools" /\ Step(ToolsListFailed(Resume(i), tasks[i]))

NextTools ==
  \/ Next
  \/ ListToolsOk
  \/ ListToolsFail

SpecTools == InitTools /\ [][NextTools]_vars

\* ------------------------------------------------ the store and its file
\* The contents an editor or another process gives the file.
StoreContents ==
  {EmptyServers,
   [EmptyServers EXCEPT !["a"] = [id |-> "a", serverType |-> "local", autoStart |-> FALSE,
                                  ver |-> 0]]}

FileContents ==
  {[st |-> "ok", mcpServers |-> c] : c \in StoreContents}
    \cup {[st |-> "corrupt", mcpServers |-> EmptyServers]}

\* After initialize(): the file was loaded and is watched.
InitStore ==
  /\ \E content \in StoreContents :
       /\ file = [st |-> "ok", mcpServers |-> content]
       /\ config = MCPConfigurationSchema(content)
  /\ servers = [id \in ServerIds |-> None]
  /\ clients = [id \in ServerIds |-> None]
  /\ transports = [id \in ServerIds |-> None]
  /\ serverStatus = [id \in ServerIds |-> NoStatus]
  /\ procs = <<>>
  /\ conns = <<>>
  /\ tasks = <<>>
  /\ emitted = <<>>
  /\ settled = <<>>
  /\ availableTools = {}
  /\ attached = FALSE
  /\ stopDone = {}
  /\ exportFile = NoFile
  /\ fresh = [id \in ServerIds |-> NoConfig]
  /\ calls = 0

StoreCallAddServer ==
  \E id \in CallerIds, ty \in ServerTypes, au \in BOOLEAN :
    /\ calls < MaxCalls
    /\ Call(StoreAddServer(St, id, [id |-> id, serverType |-> ty, autoStart |-> au,
                                    ver |-> 0]))

StoreCallUpdateServer ==
  \E id \in CallerIds :
    /\ calls < MaxCalls
    /\ config[id].ver < MaxVer
    /\ Call(StoreUpdateServer(St, id, [ver |-> config[id].ver + 1]))

StoreCallRemoveServer ==
  \E id \in CallerIds :
    /\ calls < MaxCalls
    /\ Call(StoreRemoveServer(St, id))

WriteOk ==
  \E i \in 1..Len(tasks) :
    tasks[i].pc = "write" /\ Step(WriteResolved(Resume(i), tasks[i]))

WriteFail ==
  \E i \in 1..Len(tasks), damaged \in BOOLEAN :
    tasks[i].pc = "write" /\ Step(WriteRejected(Resume(i), tasks[i], damaged))

ReadOk ==
  \E i \in 1..Len(tasks) :
    tasks[i].pc = "read" /\ Step(ReadSettled(Resume(i), tasks[i]))

ReadFail ==
  \E i \in 1..Len(tasks) :
    tasks[i].pc = "read" /\ Step(ReadRejected(Resume(i), tasks[i]))

\* Another process writes the file; the watcher gets a 'change' event.
ExternalWrite ==
  \E content \in FileContents :
    /\ calls < MaxCalls
    /\ Call(WatchChange([St EXCEPT !.file = content]))

\* Another process removes the file: a 'rename' event, which the watcher ignores.
ExternalDelete ==
  /\ calls < MaxCalls
  /\ file.st # "missing"
  /\ Call([St EXCEPT !.file = [st |-> "missing", mcpServers |-> EmptyServers]])

NextStore ==
  \/ StoreCallAddServer
  \/ StoreCallUpdateServer
  \/ StoreCallRemoveServer
  \/ WriteOk
  \/ WriteFail
  \/ ReadOk
  \/ ReadFail
  \/ ExternalWrite
  \/ ExternalDelete

SpecStore == InitStore /\ [][NextStore]_vars

\* The store when its callers only add servers: no removeServer or
\* updateServer comes between two addServer calls.
NextStoreAdd ==
  \/ StoreCallAddServer
  \/ WriteOk
  \/ WriteFail
  \/ ReadOk
  \/ ReadFail
  \/ ExternalWrite
  \/ ExternalDelete

SpecStoreAdd == InitStore /\ [][NextStoreAdd]_vars

\* ------------------------------------- the store with validated configurations
\* What the callers leave unset or set in a configuration besides id, name and
\* serverType.
NoFields == [f \in {} |-> ""]

OptionalFields ==
  {NoFields, [command |-> "cmd"], [command |-> ""], [url |-> "http://h"],
   [command |-> "cmd", autoStart |-> TRUE], [url |-> "http://h", enabled |-> FALSE]}

\* The configurations passed to addServer; the id may be empty.
ServerConfigs ==
  {Merge(b, o) : b \in [id : CallerIds \cup {""}, name : {"n"}, serverType : ServerTypes],
                 o \in OptionalFields}

\* The patches passed to updateServer.
Patches ==
  {[command |-> ""], [serverType |-> "remote"], [url |-> "http://h"],
   [autoStart |-> TRUE], [id |-> "b"]}

SchemaCallAddServer ==
  \E serverConfig \in ServerConfigs :
    /\ calls < MaxCalls
    /\ Call(SchemaAddServer(St, serverConfig))

SchemaCallUpdateServer ==
  \E id \in CallerIds, updates \in Patches :
    /\ calls < MaxCalls
    /\ Call(SchemaUpdateServer(St, id, updates))

SchemaCallRemoveServer ==
  \E id \in CallerIds :
    /\ calls < MaxCalls
    /\ Call(StoreRemoveServer(St, id))

CallExportConfig ==
  /\ calls < MaxCalls
  /\ Call(ExportConfig(St))

ExportOk ==
  \E i \in 1..Len(tasks) :
    tasks[i].pc = "export" /\ Step(ExportResolved(Resume(i), tasks[i]))

ExportFail ==
  \E i \in 1..Len(tasks) :
    tasks[i].pc = "export" /\ Step(ExportRejected(Resume(i), tasks[i]))

\* importConfig(path, merge) on the store itself.
CallImportConfig ==
  \E merge \in BOOLEAN :
    /\ calls < MaxCalls
    /\ Call(ImportConfig(St, "main", merge))

\* importConfig(path, false) on the second, fresh manager.
CallImportFresh ==
  /\ calls < MaxCalls
  /\ fresh = EmptyServers
  /\ Call(ImportConfig(St, "fresh", FALSE))

ImportReadOk ==
  \E i \in 1..Len(tasks) :
    tasks[i].pc = "importRead" /\ Step(ImportReadSettled(Resume(i), tasks[i]))

ImportReadFail ==
  \E i \in 1..Len(tasks) :
    tasks[i].pc = "importRead" /\ Step(ImportReadRejected(Resume(i), tasks[i]))

ImportWriteDone ==
  \E i \in 1..Len(tasks), ok \in BOOLEAN :
    tasks[i].pc = "importWrite" /\ Step(ImportWriteSettled(Resume(i), tasks[i], ok))

NextSchema ==
  \/ SchemaCallAddServer
  \/ SchemaCallUpdateServer
  \/ SchemaCallRemoveServer
  \/ CallExportConfig
  \/ CallImportConfig
  \/ CallImportFresh
  \/ WriteOk
  \/ WriteFail
  \/ ReadOk
  \/ ReadFail
  \/ ExportOk
  \/ ExportFail
  \/ ImportReadOk
  \/ ImportReadFail
  \/ ImportWriteDone

SpecSchema == Init /\ [][NextSchema]_vars

\* ------------------------------------------------ two servers side by side
\* The callers address every server id, and a patch may change the connection
\* parameters or any other property of a configuration, its id included.
PairPatches(cfg) ==
  (IF cfg.ver < MaxVer THEN {[ver |-> cfg.ver + 1]} ELSE {})
    \cup {[id |-> x] : x \in ServerIds \ {cfg.id}}

PairCallAddServer ==
  \E id \in ServerIds, ty \in ServerTypes, au \in BOOLEAN :
    /\ calls < MaxCalls
    /\ Call(AddServer(St, id, [id |-> id, serverType |-> ty, autoStart |-> au, ver |-> 0]))

PairCallUpdateServer ==
  \E id \in ServerIds :
    \E updates \in PairPatches(config[id]) :
      /\ calls < MaxCalls
      /\ Call(UpdateServer(St, id, updates))

PairCallRemoveServer ==
  \E id \in ServerIds :
    /\ calls < MaxCalls
    /\ Call(RemoveServer(St, id))

PairCallStartServer ==
  \E id \in ServerIds :
    /\ calls < MaxCalls
    /\ Call(StartServer(St, id, "startServer"))

PairCallStopServer ==
  \E id \in ServerIds :
    /\ calls < MaxCalls
    /\ Call(StopServer(St, id, "stopServer"))

PairCallRestartServer ==
  \E id \in ServerIds :
    /\ calls < MaxCalls
    /\ Call(RestartServer(St, id, "restartServer"))

NextPair ==
  \/ PairCallAddServer
  \/ PairCallUpdateServer
  \/ PairCallRemoveServer
  \/ PairCallStartServer
  \/ PairCallStopServer
  \/ PairCallRestartServer
  \/ ConnectOk
  \/ ConnectFail
  \/ AwaitOk
  \/ AwaitFail
  \/ ProcExit
  \/ ProcError

SpecPair == Init /\ [][NextPair]_vars

\* ------------------------------------------------- the names of the tools
\* The strings over Alphabet of at most n characters.
RECURSIVE Strings(_)
Strings(n) ==
  IF n = 0 THEN {""}
  ELSE LET S == Strings(n - 1)
       IN S \cup {x \o c : x \in {y \in S : Len(y) = n - 1}, c \in Alphabet}

\* A server id is a non-empty string (z.string().min(1)), a tool name any
\* non-empty string a server advertises.
NameIds == Strings(MaxIdLen) \ {""}
ToolNames == Strings(MaxToolLen) \ {""}

\* The model calls a tool by the key it is registered under.
UseRegisteredTool ==
  \E s \in NameIds, t \in ToolNames :
    /\ Commit(ExecuteToolUse(St, ToolKey(s, t)))
    /\ UNCHANGED calls

\* The model calls a tool by some other name.
UseOtherName ==
  \E n \in ToolNames :
    /\ Commit(ExecuteToolUse(St, n))
    /\ UNCHANGED calls

NextNames == UseRegisteredTool \/ UseOtherName

SpecNames == Init /\ [][NextNames]_vars

\* ------------------------------------------- the tool cache by server id
\* The service's two listeners on their own, for the server ids the schema
\* accepts: a server that came up registers the tool it advertises in a cache
\* that holds nothing else, and a server that stopped has its tools removed.
CacheUpdateTools ==
  \E s \in NameIds, t \in ToolNames :
    /\ availableTools = {}
    /\ Commit(SetTools(St, s, <<[name |-> t, valid |-> TRUE]>>, 1))
    /\ UNCHANGED calls

CacheRemoveTools ==
  \E s \in NameIds :
    /\ Commit(RemoveToolsForServer(St, s))
    /\ UNCHANGED calls

NextCache == CacheUpdateTools \/ CacheRemoveTools

SpecCache == InitTools /\ [][NextCache]_vars

\* ----------------------------------------------------------------- claims

Status(id) == serverStatus[id].status

PendingStarts(id) == {i \in 1..Len(tasks) : tasks[i].pc = "connect" /\ tasks[i].sid = id}

Unregistered(id) == servers[id] = None /\ clients[id] = None /\ transports[id] = None

\* C1: a startServer(id) issued while an earlier startServer(id) has not settled
\* is rejected as already running, so at no moment are two connection attempts
\* for the same id in flight.
C1_SecondStartRejected ==
  \A id \in ServerIds : Cardinality(PendingStarts(id)) <= 1

\* C2: a server whose status is stopped or error has no transport registered.
C2_NoTransportWhenStoppedOrError ==
  \A id \in ServerIds :
    Status(id) \in {"stopped", "error"} => transports[id] = None

\* C3: a server whose status is running has a registered client and a
\* registered transport, in every state, the suspension points included.
C3_RunningHasClientAndTransport ==
  \A id \in ServerIds :
    Status(id) = "running" => clients[id] # None /\ transports[id] # None

\* C4: once stopServer(id) on a running server has resolved, nothing is
\* registered for id and its status is stopped, and this lasts until the next
\* startServer/restartServer for id, whatever the terminated process delivers.
C4_StoppedStaysStopped ==
  \A id \in stopDone : Status(id) = "stopped" /\ Unregistered(id)

\* A call of restartServer(id) is the step that settles a restartServer call or
\* suspends a new asynchronous call made through restartServer.
RestartCalled(id) ==
  /\ calls' = calls + 1
  /\ \/ \E k \in 1..Len(settled') :
          settled'[k].op = "restartServer" /\ settled'[k].sid = id
     \/ /\ Len(tasks') = Len(tasks) + 1
        /\ tasks'[Len(tasks')].via = "restartServer"
        /\ tasks'[Len(tasks')].sid = id

\* C5: restartServer(id) on a running server sets the status to restarting and
\* stops the old instance before it starts a new one: its first synchronous run
\* leaves the call pending in the stop of the old instance, with the status
\* restarting and no new connection attempt begun while the old client,
\* transport or process is registered.
C5_RestartStopsBeforeStart ==
  [][\A id \in ServerIds :
       (Status(id) = "running" /\ clients[id] # None /\ RestartCalled(id)) =>
         /\ serverStatus'[id].status = "restarting"
         /\ Len(conns') = Len(conns)
         /\ Len(tasks') = Len(tasks) + 1
         /\ tasks'[Len(tasks')].op = "stopServer"]_vars

\* C6: when the reaction to a successful updateServer on a running server has
\* settled, the server is running on a new connection made from the updated
\* configuration and every older connection of the server has been closed.
C6_UpdateRestartsRunningServer ==
  \A k \in 1..Len(settled) :
    (settled[k].op = "handleServerUpdated" /\ settled[k].res # "skipped") =>
      LET id == settled[k].sid IN
      /\ Status(id) = "running"
      /\ clients[id] # None
      /\ \A c \in 1..Len(conns) :
           (conns[c].sid = id /\ conns[c].st = "open") => c = clients[id]

\* C7: once the serverRemoved event for id has been handled, no process,
\* client or transport is registered for id and id has no status record.
C7_RemovedLeavesNothing ==
  \A k \in 1..Len(settled) :
    (settled[k].op = "handleServerRemoved" /\ settled[k].res = "ok") =>
      Unregistered(settled[k].sid) /\ GetServerStatus(St, settled[k].sid) = NoStatus

\* C8: stopServer(id) on a server that is already stopped, or was never
\* started, resolves and changes neither the status records nor the
\* registered clients, transports and processes.
C8_StopIdempotent ==
  [][\A id \in ServerIds :
       (/\ calls' = calls + 1
        /\ Status(id) \in {"stopped", "absent"}
        /\ \E k \in 1..Len(settled') :
             settled'[k] = [op |-> "stopServer", sid |-> id, res |-> "ok"]) =>
         UNCHANGED <<serverStatus, servers, clients, transports>>]_vars

\* C9: when the connect of startServer(id) fails, the status of id is error
\* with the failure message, the caller gets the error, and a serverError
\* event for id is emitted.
C9_ConnectFailureReported ==
  \A k \in 1..Len(settled) :
    (settled[k].op = "startServer" /\ settled[k].res = "ConnectFailed") =>
      LET id == settled[k].sid IN
      /\ Status(id) = "error"
      /\ serverStatus[id].errorMessage # ""
      /\ \E e \in 1..Len(emitted) :
           emitted[e].ev = "serverError" /\ emitted[e].sid = id

\* The exit event of process p is delivered in this step.
Exits(p) == procs[p].st # "exited" /\ procs'[p].st = "exited"

\* C10: when a process of a running local server exits, exit code 0 moves the
\* status to stopped and any other exit moves it to error with a non-empty
\* errorMessage; the client is unregistered, so getAvailableTools fails as not
\* connected, and a client is registered again only by a startServer whose
\* connect succeeds.
C10_ExitMovesToStoppedOrError ==
  [][/\ \A p \in 1..Len(procs) :
          (Exits(p) /\ Status(procs[p].sid) = "running") =>
            LET id == procs[p].sid
                code == emitted'[Len(emitted')].arg
            IN /\ code = "0" => serverStatus'[id].status = "stopped"
               /\ code # "0" => /\ serverStatus'[id].status = "error"
                                /\ serverStatus'[id].errorMessage # ""
               /\ clients'[id] = None
               /\ GetAvailableTools(St', id) = "NotConnected"
     /\ \A id \in ServerIds :
          (clients[id] = None /\ clients'[id] # None) =>
            \E i \in PendingStarts(id) :
              /\ clients'[id] = tasks[i].conn
              /\ serverStatus'[id].status = "running"]_vars

\* A running local server's process has exited with code 1: the status is
\* error with the exit message, the pid recorded when the server came up is
\* that process, and no client is registered.
C10_Witness ==
  \E p \in 1..Len(procs) :
    LET id == procs[p].sid IN
    /\ procs[p].st = "exited"
    /\ serverStatus[id] = [status |-> "error", pid |-> p,
                           errorMessage |-> "Process exited with code 1"]
    /\ \E e \in 1..Len(emitted) :
         emitted[e] = [ev |-> "serverStopped", sid |-> id, arg |-> "1"]
    /\ transports[id] # None
    /\ GetAvailableTools(St, id) = "NotConnected"

\* C11: for every server id whose status is not running (stopped, starting,
\* error, restarting, or no status record), getAvailableTools(id) and
\* callTool(id, name, args) fail as not connected, without reaching a client.
C11_NotRunningNotConnected ==
  \A id \in ServerIds :
    Status(id) # "running" =>
      /\ GetAvailableTools(St, id) = "NotConnected"
      /\ CallTool(St, id) = "NotConnected"

\* A call of startServer(id) by a caller is the step that settles a startServer
\* call or suspends a new asynchronous call made through startServer.
StartCalled(id) ==
  /\ calls' = calls + 1
  /\ \/ \E k \in 1..Len(settled') :
          settled'[k].op = "startServer" /\ settled'[k].sid = id
     \/ /\ Len(tasks') = Len(tasks) + 1
        /\ tasks'[Len(tasks')].via = "startServer"
        /\ tasks'[Len(tasks')].sid = id

\* C12: startServer(id) for an id that has no configuration fails as not found
\* and changes nothing: no status record is created or modified, no process,
\* client or transport is registered, nothing is left pending, and no event is
\* emitted.
C12_StartUnknownChangesNothing ==
  [][\A id \in ServerIds :
       (config[id] = NoConfig /\ StartCalled(id)) =>
         /\ settled' = <<[op |-> "startServer", sid |-> id, res |-> "NotFound"]>>
         /\ emitted' = <<>>
         /\ UNCHANGED <<config, serverStatus, servers, clients, transports,
                        procs, conns, tasks>>]_vars

\* startServer was just rejected as not found for an id that has no
\* configuration, no status record and nothing registered.
C12_Witness ==
  \E id \in ServerIds :
    /\ config[id] = NoConfig
    /\ settled = <<[op |-> "startServer", sid |-> id, res |-> "NotFound"]>>
    /\ serverStatus[id] = NoStatus
    /\ Unregistered(id)
    /\ emitted = <<>>

\* C13: after shutdown() has resolved, every server that was running when it
\* was called, local or remote, has been stopped: it has no client, transport
\* or process registered and its status is not running.
C13_ShutdownStopsEveryRunningServer ==
  \A k \in 1..Len(settled) :
    (settled[k].op = "shutdown" /\ settled[k].res = "ok") =>
      \A id \in settled[k].was : Status(id) # "running" /\ Unregistered(id)

\* A successful addServer for id has emitted serverAdded in this step.
ServerAdded(id) ==
  \E e \in 1..Len(emitted') : emitted'[e].ev = "serverAdded" /\ emitted'[e].sid = id

\* C14: when addServer succeeds with autoStart=true for a server whose status
\* is absent or stopped, the manager's reaction to serverAdded starts it: the
\* status becomes starting with a connection attempt pending, and when that
\* connect succeeds the status becomes running and getAvailableTools(id)
\* returns the tools.  When autoStart is not true, no start is attempted and
\* no status record is created.
C14_AutoStartStartsServer ==
  [][\A id \in ServerIds :
       /\ (ServerAdded(id) /\ config'[id].autoStart
              /\ Status(id) \in {"absent", "stopped"}) =>
            /\ serverStatus'[id].status = "starting"
            /\ \E i \in 1..Len(tasks') :
                 /\ tasks'[i].pc = "connect" /\ tasks'[i].sid = id
                 /\ tasks'[i].via = "handleServerAdded"
                 /\ tasks'[i].conn > Len(conns)
       /\ \A i \in PendingStarts(id) :
            (tasks[i].via = "handleServerAdded" /\ conns[tasks[i].conn].st = "pending"
               /\ conns'[tasks[i].conn].st = "open") =>
              /\ serverStatus'[id].status = "running"
              /\ GetAvailableTools(St', id) = "tools"
       /\ (ServerAdded(id) /\ ~config'[id].autoStart) =>
            /\ serverStatus' = serverStatus
            /\ tasks' = tasks /\ conns' = conns /\ procs' = procs]_vars

StoreEvents == {"serverAdded", "serverUpdated", "serverRemoved"}

\* C15: serverAdded, serverUpdated and serverRemoved are emitted only after the
\* write of the new configuration to the backing file has completed: when the
\* event is delivered the file holds the configuration the event describes
\* (for serverRemoved, no entry for the id), and a call whose write failed
\* emits no such event.
C15_EventAfterWrite ==
  /\ \A e \in 1..Len(emitted) :
       emitted[e].ev \in StoreEvents =>
         /\ file.st = "ok"
         /\ file.mcpServers[emitted[e].sid] = emitted[e].cfg
  /\ \A k \in 1..Len(settled) :
       settled[k].res = "SaveFailed" =>
         \A e \in 1..Len(emitted) : emitted[e].ev \notin StoreEvents

\* serverUpdated was just emitted with the updated configuration, which the
\* file holds, while another call of the store is still writing.
C15_Witness ==
  /\ \E e \in 1..Len(emitted) :
       /\ emitted[e].ev = "serverUpdated"
       /\ emitted[e].cfg.ver = 1
       /\ file.mcpServers[emitted[e].sid] = emitted[e].cfg
  /\ \E i \in 1..Len(tasks) : tasks[i].pc = "write"

\* The addServer(id) calls that are persisting: suspended in the write.
PendingAdds(id) ==
  {i \in 1..Len(tasks) : tasks[i].op = "addServer" /\ tasks[i].sid = id}

\* A call of addServer for id is the step that rejects it or suspends it in
\* the write of the configuration.
AddCalled(id) ==
  /\ calls' = calls + 1
  /\ \/ \E k \in 1..Len(settled') :
          settled'[k].op = "addServer" /\ settled'[k].sid = id
     \/ /\ Len(tasks') = Len(tasks) + 1
        /\ tasks'[Len(tasks')].op = "addServer"
        /\ tasks'[Len(tasks')].sid = id

\* C16: addServer with an id that is already present fails as a duplicate,
\* leaves the configuration in memory and the backing file unchanged and emits
\* no serverAdded; and an addServer issued while an earlier addServer for the
\* same id is still persisting is rejected as a duplicate, so that exactly one
\* of the two succeeds.
C16_DuplicateAddRejected ==
  [][\A id \in ServerIds :
       AddCalled(id) =>
         /\ (config[id] # NoConfig \/ PendingAdds(id) # {}) =>
              settled' = <<[op |-> "addServer", sid |-> id, res |-> "DuplicateId"]>>
         /\ (\E k \in 1..Len(settled') : settled'[k].res = "DuplicateId") =>
              /\ UNCHANGED <<config, file, tasks>>
              /\ emitted' = <<>>]_vars

\* The reload suspended as tasks[i] ends in this step with a configError event.
ReloadFailed(i) ==
  /\ tasks[i].op = "watch"
  /\ \E e \in 1..Len(emitted') : emitted'[e].ev = "configError"
  /\ \/ tasks' = RemoveAt(tasks, i)
     \/ /\ Len(tasks') = Len(tasks)
        /\ SubSeq(tasks', 1, Len(tasks) - 1) = RemoveAt(tasks, i)

\* C17: when a reload triggered by the watcher fails, configError is emitted
\* and the reload has left the configuration in memory as it was before (no
\* configChanged), and the watcher goes on handling later changes of the file.
C17_FailedReloadKeepsConfig ==
  [][/\ \A i \in 1..Len(tasks) :
          ReloadFailed(i) =>
            /\ config' = config
            /\ tasks[i].pc = "write" => tasks[i].old = tasks[i].snap
            /\ \A e \in 1..Len(emitted') : emitted'[e].ev # "configChanged"
     /\ (calls' = calls + 1 /\ file' # file /\ file'.st # "missing") =>
          /\ Len(tasks') = Len(tasks) + 1
          /\ tasks'[Len(tasks')].op = "watch"
          /\ tasks'[Len(tasks')].pc = "read"]_vars

\* C18: for every server id s and every tool name t a server can advertise,
\* resolving the key s + "__" + t as executeToolUse does yields exactly (s, t),
\* and a name without "__" is rejected as an invalid tool name.
C18_ResolveInvertsToolKey ==
  \A k \in 1..Len(settled) :
    settled[k].op = "executeToolUse" =>
      /\ \A s \in NameIds, t \in ToolNames :
           settled[k].key = ToolKey(s, t) =>
             /\ settled[k].res # "InvalidToolName"
             /\ settled[k].sid = s
             /\ settled[k].tool = t
      /\ IndexOf(settled[k].key) = 0 => settled[k].res = "InvalidToolName"

\* getToolsByServer: the keys of the cache that belong to server id.
ToolsByServer(cache, id) == {k \in cache : StartsWith(k, id \o Separator)}

\* C19: when the refresh that follows a successful connect ends, the entries of
\* the tool cache for that server are exactly the tools it advertised on that
\* connect, entries of an earlier connect that are no longer advertised being
\* gone; a refresh that fails leaves the entries as they were, never a part of
\* the new set.
C19_RefreshReplacesTools ==
  [][\A i \in 1..Len(tasks) :
       (tasks[i].pc = "listTools" /\ tasks' = RemoveAt(tasks, i)) =>
         LET id == tasks[i].sid
             updates == {e \in 1..Len(emitted') :
                           emitted'[e].ev = "toolsUpdated" /\ emitted'[e].sid = id}
         IN /\ \A e \in updates :
                 ToolsByServer(availableTools', id)
                   = {ToolKey(id, n) : n \in emitted'[e].tools}
            /\ updates = {} =>
                 ToolsByServer(availableTools', id) = ToolsByServer(availableTools, id)]_vars

\* C20: once a server has left running (stopServer, exit of its process, an
\* error event of its process, removal of its configuration) and nothing for
\* it is pending any more, the tool cache holds no entry under its id.
C20_NoToolsWhenNotRunning ==
  \A id \in ServerIds :
    (/\ attached
     /\ Status(id) \in {"stopped", "error", "absent"}
     /\ \A i \in 1..Len(tasks) : tasks[i].sid # id) =>
      ToolsByServer(availableTools, id) = {}

\* The importConfig of the fresh manager suspended as tasks[i] reads and
\* validates the exported file and replaces its configuration in this step.
FreshImported(i) ==
  /\ tasks[i].pc = "importRead"
  /\ tasks[i].store = "fresh"
  /\ Len(tasks') = Len(tasks)
  /\ tasks'[Len(tasks')].pc = "importWrite"

\* C21: exportConfig() on a store followed by importConfig(path, false) of the
\* exported file into a fresh store gives the fresh store an mcpServers map
\* equal to the one that was exported, key for key and property for property,
\* also for servers added with optional properties left unset.
C21_ExportImportRoundTrip ==
  [][\A i \in 1..Len(tasks) :
       FreshImported(i) => fresh' = exportFile.mcpServers]_vars

\* C22: addServer and updateServer accept a configuration only if it has a
\* non-empty command when it is local and a non-empty url otherwise; a call
\* whose configuration (or merged update) violates this is rejected, leaves the
\* configuration in memory and the file unchanged, starts no write and emits
\* nothing, so every stored configuration satisfies the rule.
C22_CommandOrUrlRequired ==
  [][/\ \A k \in ServerIds : config'[k] # NoConfig => Refinement(config'[k])
     /\ (\E j \in 1..Len(settled') : settled'[j].res = "Invalid") =>
          /\ UNCHANGED <<config, file, tasks>>
          /\ emitted' = <<>>]_vars

\* updateServer was just rejected for a patch that would leave the stored local
\* server without a command (or make it a remote server without a url).
C22_Witness ==
  /\ settled = <<[op |-> "updateServer", sid |-> "a", res |-> "Invalid"]>>
  /\ config["a"] # NoConfig
  /\ config["a"].serverType = "local"
  /\ config["a"].command = "cmd"
  /\ emitted = <<>>

\* C23: a configured server whose status is error can be started again,
\* however the error was reached (failed connect of a local or remote server,
\* error event of its process, nonzero exit of its process): startServer(id)
\* is not rejected as already running and moves the status to starting.
C23_ErrorCanBeStartedAgain ==
  [][\A id \in ServerIds :
       (Status(id) = "error" /\ config[id] # NoConfig /\ StartCalled(id)) =>
         /\ \A k \in 1..Len(settled') : settled'[k].res # "AlreadyRunning"
         /\ serverStatus'[id].status = "starting"]_vars

\* The ids whose status record, client, transport or process registration
\* differs between the two states of a step.
Touched ==
  {id \in ServerIds :
     \/ serverStatus'[id] # serverStatus[id]
     \/ servers'[id] # servers[id]
     \/ clients'[id] # clients[id]
     \/ transports'[id] # transports[id]}

\* C24: every lifecycle operation and event is one for a single server id
\* (startServer, stopServer, restartServer, process exit or error, configuration
\* added, updated or removed) and changes the status record, client, transport
\* and process registration of no other id: no step touches two ids.
C24_OtherIdUntouched ==
  [][Cardinality(Touched) <= 1]_vars

\* updateServer for id has emitted serverUpdated in this step.
ServerUpdated(id) ==
  \E e \in 1..Len(emitted') : emitted'[e].ev = "serverUpdated" /\ emitted'[e].sid = id

\* C25: a serverUpdated event for a server that is not running (status stopped
\* or error, or no status record) starts nothing and leaves the status
\* records, clients, transports and processes as they are; a startServer(id)
\* then connects with the configuration the store holds at that call, the
\* updated one.
C25_UpdateOfStoppedServerWaits ==
  [][\A id \in ServerIds :
       /\ (ServerUpdated(id) /\ Status(id) \in {"stopped", "error", "absent"}) =>
            UNCHANGED <<serverStatus, servers, clients, transports, procs, conns, tasks>>
       /\ (StartCalled(id) /\ Len(conns') = Len(conns) + 1) =>
            conns'[Len(conns')].ver = config[id].ver]_vars

\* A server was added, updated before it was ever started, and then started:
\* the only connection made is one with the updated configuration.
C25_Witness ==
  /\ config["a"].ver = 1
  /\ Status("a") = "starting"
  /\ Len(conns) = 1
  /\ conns[1].ver = 1
  /\ \E i \in PendingStarts("a") : tasks[i].via = "startServer" /\ tasks[i].conn = 1

\* C26: the exit event of a process that has been replaced (its server was
\* stopped and started again, and another process is registered under the id)
\* does not change the newer instance: its process and client registrations
\* stay, and a starting or running status is not changed.
C26_StaleExitIgnored ==
  [][\A p \in 1..Len(procs) :
       LET id == procs[p].sid IN
       (Exits(p) /\ servers[id] # None /\ servers[id] # p) =>
         /\ servers'[id] = servers[id]
         /\ clients'[id] = clients[id]
         /\ Status(id) \in {"starting", "running"} =>
              serverStatus'[id].status = Status(id)]_vars

\* C27: every server id that has status running, or a registered client,
\* transport or process, has a configuration in the store, once nothing is
\* pending for it: a configuration does not disappear from the store while its
\* server is left running.
C27_RunningIsConfigured ==
  \A id \in ServerIds :
    (/\ \A i \in 1..Len(tasks) : tasks[i].sid # id
     /\ Status(id) = "running" \/ ~Unregistered(id)) =>
      config[id] # NoConfig

\* The addServer, updateServer or removeServer call suspended in its write as
\* tasks[i] fails in this step because the write fails.
SaveFailedNow(i) ==
  /\ tasks[i].pc = "write"
  /\ tasks[i].op \in {"addServer", "updateServer", "removeServer"}
  /\ \E k \in 1..Len(settled') :
       settled'[k] = [op |-> tasks[i].op, sid |-> tasks[i].sid, res |-> "SaveFailed"]

\* C28: when addServer, updateServer or removeServer fails because the
\* configuration could not be persisted, the configuration in memory is the
\* one from before the call: the server is not left added, changed or removed.
\* (Stated for a call whose mutation nothing else has overwritten meanwhile.)
C28_FailedSaveRollsBack ==
  [][\A i \in 1..Len(tasks) :
       (SaveFailedNow(i) /\ config = tasks[i].snap) => config' = tasks[i].old]_vars

\* C29: every entry of mcpServers is stored under a key equal to its own id
\* property, whatever addServer, updateServer (with any patch, one that holds an
\* id included), removeServer and importConfig did: getServer(k).id = k, and
\* every server getAutoStartServers returns is found by getServer(server.id).
C29_KeyEqualsId ==
  /\ \A k \in ServerIds : config[k] # NoConfig => GetServer(config, k).id = k
  /\ \A server \in GetAutoStartServers(config) : GetServer(config, server.id) = server

\* C30: removing the cached tools of server A deletes no entry that belongs to
\* a different server B, for all non-empty ids and tool names: the keys B
\* registered in the step before are still cached after the removal for A.
C30_RemoveKeepsOtherServers ==
  [][\A e \in 1..Len(emitted), r \in 1..Len(emitted') :
       (/\ emitted[e].ev = "toolsUpdated"
        /\ emitted'[r].ev = "toolsRemoved"
        /\ emitted'[r].sid # emitted[e].sid) =>
         \A n \in emitted[e].tools :
           ToolKey(emitted[e].sid, n) \in availableTools']_vars

====
